---- MODULE Spec2Model ----
(***************************************************************************)
(* News Analysis API (app.py, agent.py, expert_finder.py, email_agent.py). *)
(*                                                                         *)
(* Every route handler is an `async def` whose external calls              *)
(* (GoogleSearch.get_dict, openai.chat.completions.create) are blocking    *)
(* calls; the only `await` is on a coroutine that never suspends.  A       *)
(* handler therefore runs from request to response without interleaving,   *)
(* and one action models one whole handler invocation, including the lazy  *)
(* `from <stage> import ...` it performs and the framework's conversion of *)
(* its outcome into an HTTP response.                                      *)
(*                                                                         *)
(* Python values: a str is a sequence of tokens (an f-string is the        *)
(* concatenation of its pieces), a dict is a record / function on its      *)
(* keys, a list is a sequence, an exception is [type, msg] with            *)
(* str(e) = msg.                                                           *)
(***************************************************************************)
EXTENDS Integers, Sequences, FiniteSets, TLC

VARIABLES
    sdk,        \* installed openai package: "legacy" (0.x) or "v1" (>= 1.0)
    envKey,     \* OPENAI_API_KEY of the environment: "absent", "short", "ok"
    loaded,     \* stage modules already imported (sys.modules)
    api_key,    \* the process-wide openai.api_key: "none", "short", "ok"
    route,      \* route of the most recent request ("none" before the first)
    request,    \* its request body
    calls,      \* imports and external calls it made, in order
    fetched,    \* the handler's news_data: what NewsFetcher returned or raised, if called
    http,       \* HTTP status code of its response
    body,       \* JSON body of its response
    alone       \* reference run: the response a freshly started process gives
                \* to the same request with the same external-call results

vars == <<sdk, envKey, loaded, api_key, route, request, calls, fetched, http, body, alone>>

----------------------------------------------------------------------------
(* Bounds of the model *)

\* largest number of hits the search provider returns in one answer
MaxHits == 2

\* largest number of topics in one LLM reply to TopicSelector
MaxTopics == 3

----------------------------------------------------------------------------
(* Python values *)

EmptyDict == [k \in {} |-> TRUE]

\* d[k] = v on a dict
Put(d, k, v) == [x \in DOMAIN d \cup {k} |-> IF x = k THEN v ELSE d[x]]

\* d.get(k, default)
Get(d, k, default) == IF k \in DOMAIN d THEN d[k] ELSE default

\* {**d, **e}: keys of e override those of d
Merge(d, e) == [x \in DOMAIN d \cup DOMAIN e |-> IF x \in DOMAIN e THEN e[x] ELSE d[x]]

\* sub in s, on token sequences
Contains(s, sub) ==
    \E i \in 0..(Len(s) - Len(sub)) : SubSeq(s, i + 1, i + Len(sub)) = sub

Exc(t, m) == [type |-> t, msg |-> m]

\* outcome of a call: a value or a raised exception, with the imports and
\* external calls made on the way
Ret(v, c) == [ok |-> TRUE, val |-> v, calls |-> c]
Raise(e, c) == [ok |-> FALSE, exc |-> e, calls |-> c]

\* datetime.now() rendered as text; the clock is not modelled
Now == <<"<now>">>

----------------------------------------------------------------------------
(* Requests (the pydantic input models, app.py) *)

NewsQueryInputs == {[category |-> <<"sports news">>]}

TopicInput(i, h) ==
    [topic_id |-> i, headline |-> h, summary |-> <<"S">>,
     need_for_commentary |-> <<"N">>, expert_angles |-> <<<<"Q1">>>>]

TopicInputs == {TopicInput(1, <<"H1">>), TopicInput(7, <<"H2">>)}

ExpertInput(t, n) ==
    [topic |-> t, name |-> n, institution |-> <<"I">>, expertise |-> <<"E">>,
     notable_work |-> <<"W">>, unique_perspective |-> <<"U">>,
     contact_method |-> <<"M">>, suggested_questions |-> <<<<"Q1">>>>,
     contact_info |-> <<"x@i.edu">>]

ExpertInputs == {ExpertInput(<<"H1">>, <<"Dr A">>), ExpertInput(<<"H2">>, <<"Dr B">>)}

\* a body is a sequence of words
SimpleEmailInputs ==
    {[subject |-> <<"Subj1">>, body |-> <<"one">>, name |-> <<"Dr A">>],
     [subject |-> <<"Subj2">>, body |-> <<"two", "words">>, name |-> <<"Dr B">>]}

----------------------------------------------------------------------------
(* The search provider: GoogleSearch(params).get_dict() *)

\* raw hits: every field of a hit is optional
RawHits ==
    {[title |-> <<"T1">>, snippet |-> <<"P1">>, source |-> <<"BBC">>,
      link |-> <<"http://t1">>, date |-> <<"1 hour ago">>],
     [link |-> <<"http://t2">>]}

HitLists == UNION {[1..n -> RawHits] : n \in 0..MaxHits}

\* the call raises, answers without a news_results field, or answers with hits
SearchOutcomes ==
    {[kind |-> "raise", results |-> EmptyDict],
     [kind |-> "answer", results |-> [search_metadata |-> <<"ok">>]]}
    \cup {[kind |-> "answer", results |-> [news_results |-> hs]] : hs \in HitLists}

SearchError == Exc("ConnectionError", <<"search provider unreachable">>)

SearchCall(q, so) == [svc |-> "search", arg |-> q, out |-> so.kind, reply |-> so.results]

\* search.get_dict() tried a second time when it raises
get_dict_retrying(q, so) ==
    IF so.kind = "raise" THEN Raise(SearchError, <<SearchCall(q, so), SearchCall(q, so)>>)
    ELSE Ret(so.results, <<SearchCall(q, so)>>)

\* search.get_dict()
get_dict(q, so) ==
    IF so.kind = "raise" THEN Raise(SearchError, <<SearchCall(q, so)>>)
    ELSE Ret(so.results, <<SearchCall(q, so)>>)

----------------------------------------------------------------------------
(* The LLM provider: openai.chat.completions.create(...) *)

\* what the provider does with a request it receives: one of three errors,
\* or a reply whose content is empty, is not JSON, or is a JSON object
\* (every call site asks for response_format json_object)
LLMOutcomes(docs) ==
    {[kind |-> k, doc |-> EmptyDict] : k \in {"auth", "rate", "timeout", "empty", "garbage"}}
    \cup {[kind |-> "json", doc |-> d] : d \in docs}

\* what the provider can do with the call a handler makes under key `key`:
\* only a request carrying a valid key has more than one outcome (without
\* openai.chat or without a key nothing is sent, and an invalid key is
\* always rejected)
ProviderOutcomes(key, docs) ==
    IF sdk = "v1" /\ key = "ok" THEN LLMOutcomes(docs)
    ELSE {[kind |-> "auth", doc |-> EmptyDict]}

\* the exception of a failed call, by kind of failure: the provider's three
\* errors, and the two failures of the package before anything is sent
LLMError(k) ==
    CASE k = "auth"     -> Exc("AuthenticationError", <<"Incorrect API key provided">>)
      [] k = "rate"     -> Exc("RateLimitError", <<"Rate limit reached">>)
      [] k = "timeout"  -> Exc("APITimeoutError", <<"Request timed out.">>)
      [] k = "nochat"   -> Exc("AttributeError", <<"module 'openai' has no attribute 'chat'">>)
      [] k = "noclient" -> Exc("OpenAIError", <<"The api_key client option must be set">>)

JSONDecodeError == Exc("JSONDecodeError", <<"Expecting value: line 1 column 1 (char 0)">>)

\* one LLM call of a stage in the log: its outcome and, for a JSON reply,
\* the object replied
LLMCall(stage, arg, out, reply) ==
    [svc |-> "llm", arg |-> arg, stage |-> stage, out |-> out, reply |-> reply]

FailedCall(stage, arg, k) == Raise(LLMError(k), <<LLMCall(stage, arg, k, EmptyDict)>>)

\* openai.chat.completions.create under the installed package and the
\* current openai.api_key.  The 0.x package has no openai.chat; the 1.x
\* package refuses to build a client without a key; the provider rejects a
\* key that is not a valid one.
create(stage, arg, key, o) ==
    IF sdk = "legacy" THEN FailedCall(stage, arg, "nochat")
    ELSE IF key = "none" THEN FailedCall(stage, arg, "noclient")
    ELSE IF key = "short" THEN FailedCall(stage, arg, "auth")
    ELSE IF o.kind \in {"auth", "rate", "timeout"} THEN FailedCall(stage, arg, o.kind)
    ELSE Ret(o, <<LLMCall(stage, arg, o.kind, o.doc)>>)

\* json.loads(response.choices[0].message.content)
json_loads(content) ==
    IF content.kind = "json" THEN Ret(content.doc, <<>>)
    ELSE Raise(JSONDecodeError, <<>>)

----------------------------------------------------------------------------
(* Importing a stage module: its top-level code *)

ImportEvent(m, out) == [svc |-> "import", arg |-> m, out |-> out]

\* the same, leaving a module that raised in sys.modules, so that the next
\* import finds it
LoadStage_keeping_failed(m, ld, key) ==
    IF m \in ld
    THEN [ok |-> TRUE, exc |-> Exc("", <<>>), loaded |-> ld, key |-> key, calls |-> <<>>]
    ELSE IF envKey = "absent"
    THEN [ok |-> FALSE,
          exc |-> Exc("ValueError", <<"OPENAI_API_KEY environment variable is not set. Please check your .env file.">>),
          loaded |-> ld \cup {m}, key |-> key, calls |-> <<ImportEvent(m, "raise")>>]
    ELSE [ok |-> TRUE, exc |-> Exc("", <<>>), loaded |-> ld \cup {m}, key |-> envKey,
          calls |-> <<ImportEvent(m, "ok")>>]

\* `from <m> import ...` with sys.modules = ld and openai.api_key = key.
\* A module that raised is not cached and is executed again by the next
\* import.
LoadStage(m, ld, key) ==
    IF m \in ld
    THEN [ok |-> TRUE, exc |-> Exc("", <<>>), loaded |-> ld, key |-> key, calls |-> <<>>]
    ELSE IF envKey = "absent"
    THEN [ok |-> FALSE,
          exc |-> Exc("ValueError", <<"OPENAI_API_KEY environment variable is not set. Please check your .env file.">>),
          loaded |-> ld, key |-> key, calls |-> <<ImportEvent(m, "raise")>>]
    ELSE [ok |-> TRUE, exc |-> Exc("", <<>>), loaded |-> ld \cup {m}, key |-> envKey,
          calls |-> <<ImportEvent(m, "ok")>>]

----------------------------------------------------------------------------
(* NewsFetcher *)

(* A value of the code that is used more than once is a parameter of the
   operator modelling the code after it: f(...) == f_after_x(..., x).      *)

Significance == <<"This story is significant as it represents current developments in important global events.">>

CommentaryNote == <<"Expert analysis would provide deeper insights into the implications and potential developments.">>

\* one NewsStory(...).dict() of fetch_news_by_category
NewsStory(story) ==
    [headline |-> Get(story, "title", <<>>),
     summary |-> Get(story, "snippet", <<>>),
     significance |-> Significance,
     key_entities |-> IF "source" \in DOMAIN story THEN <<story["source"]>> ELSE <<>>,
     commentary_note |-> CommentaryNote]

\* raise HTTPException(status_code=500, detail=str(e)); str() of it is
\* "<status_code>: <detail>"
HTTPException(code, detail) ==
    [type |-> "HTTPException", msg |-> <<ToString(code), ": ">> \o detail,
     status_code |-> code, detail |-> detail]

\* lines 86-112: the news_stories built from `results`
CategoryStories(results) ==
    IF "news_results" \in DOMAIN results
    THEN [i \in 1..Len(results["news_results"]) |-> NewsStory(results["news_results"][i])]
    ELSE <<>>

\* fetch_news_by_category after search.get_dict() returned or raised r
fetch_news_by_category_after_search(r) ==
    IF r.ok
    THEN Ret(<<[output |-> [news_stories |-> CategoryStories(r.val)]]>>, r.calls)
    ELSE Raise(HTTPException(500, r.exc.msg), r.calls)

\* the same, treating an answer without a news_results field as a failure
fetch_news_by_category_after_search_strict(r) ==
    IF r.ok /\ "news_results" \in DOMAIN r.val
    THEN Ret(<<[output |-> [news_stories |-> CategoryStories(r.val)]]>>, r.calls)
    ELSE Raise(HTTPException(500, IF r.ok THEN <<"'news_results'">> ELSE r.exc.msg), r.calls)

fetch_news_by_category_strict(category, so) ==
    fetch_news_by_category_after_search_strict(get_dict(category, so))

fetch_news_by_category(category, so) ==
    fetch_news_by_category_after_search(get_dict(category, so))

----------------------------------------------------------------------------
(* TopicSelector (agent.py) *)

LLMTopic(i) ==
    [topic_id |-> i, headline |-> <<"Topic", ToString(i)>>, summary |-> <<"S">>,
     need_for_commentary |-> <<"N">>, expert_angles |-> <<<<"Q1">>>>]

\* JSON objects the LLM may answer TopicSelector with: 0..MaxTopics topics
\* numbered by position, a list repeating a topic_id, an object without
\* the selected_topics key
TopicDocs ==
    {[selected_topics |-> [i \in 1..n |-> LLMTopic(i)]] : n \in 0..MaxTopics}
    \cup {[selected_topics |-> <<LLMTopic(1), LLMTopic(1)>>],
          [note |-> <<"no topics">>]}

\* a stage's json.loads of the reply r of its call, when the call returned
Parsed(r) == IF r.ok THEN json_loads(r.val) ELSE r

\* analyze_news after the call (r) and the parse (p): the parsed object, or
\* `raise Exception(f"Error analyzing news: {str(e)}")`
analyze_news_after_parse(r, p) ==
    IF r.ok /\ p.ok THEN Ret(p.val, r.calls)
    ELSE Raise(Exc("Exception", <<"Error analyzing news: ">> \o p.exc.msg), r.calls)

analyze_news_after_create(r) == analyze_news_after_parse(r, Parsed(r))

\* the same, letting the original exception through unwrapped
analyze_news_after_parse_unwrapped(r, p) ==
    IF r.ok /\ p.ok THEN Ret(p.val, r.calls) ELSE Raise(p.exc, r.calls)

analyze_news_unwrapped(news_data, key, o) ==
    analyze_news_after_parse_unwrapped(
        create("TopicSelector", news_data[1]["output"]["news_stories"], key, o),
        Parsed(create("TopicSelector", news_data[1]["output"]["news_stories"], key, o)))

\* NewsAnalyzer.analyze_news
analyze_news(news_data, key, o) ==
    analyze_news_after_create(
        create("TopicSelector", news_data[1]["output"]["news_stories"], key, o))

\* analysis["analysis_timestamp"] = str(datetime.now())
analyze_news_stories_after_analysis(a) ==
    IF a.ok THEN Ret(Put(a.val, "analysis_timestamp", Now), a.calls) ELSE a

analyze_news_stories(news_data, key, o) ==
    analyze_news_stories_after_analysis(analyze_news(news_data, key, o))

----------------------------------------------------------------------------
(* POST /news/analysis/category *)

\* `return {"output": analysis, "status": "success", "status_code": 200}`
\* of a topic-selection handler, after the calls cs and the analysis
TopicsResponse(cs, analysis) ==
    IF ~analysis.ok THEN Raise(analysis.exc, cs \o analysis.calls)
    ELSE Ret([output |-> analysis.val, status |-> "success", status_code |-> 200],
             cs \o analysis.calls)

\* the `except Exception` of a topic-selection handler (lines 142-152 and
\* 366-378) around the outcome t of its try block
TopicsExcept(t) ==
    IF t.ok THEN t
    ELSE Ret([output |-> [selected_topics |-> <<>>, analysis_timestamp |-> Now],
              status |-> "error", status_code |-> 500, error |-> t.exc.msg], t.calls)

analyze_news_by_category_after_fetch(imp, news_data, o) ==
    IF ~news_data.ok THEN Raise(news_data.exc, imp.calls \o news_data.calls)
    ELSE TopicsResponse(imp.calls \o news_data.calls,
                        analyze_news_stories(news_data.val, imp.key, o))

\* the handler's try block, lines 130-140
analyze_news_by_category_try(query, imp, so, o) ==
    IF ~imp.ok THEN Raise(imp.exc, imp.calls)
    ELSE analyze_news_by_category_after_fetch(
             imp, fetch_news_by_category(query.category, so), o)

\* the handler: the try block and its `except Exception`, lines 142-152
analyze_news_by_category(query, imp, so, o) ==
    TopicsExcept(analyze_news_by_category_try(query, imp, so, o))

----------------------------------------------------------------------------
(* ExpertFinder (expert_finder.py) *)

\* the prompt asks for exactly 3 experts per topic
ExpertsPerTopic == 3

LLMExpert(i) ==
    [name |-> <<"Prof", ToString(i)>>, institution |-> <<"Univ">>,
     expertise |-> <<"E">>, notable_work |-> <<"W">>, unique_perspective |-> <<"U">>,
     contact_method |-> <<"M">>, suggested_questions |-> <<<<"Q1">>>>,
     contact_info |-> <<"prof@univ.edu">>]

LLMRecommendation(id, headline, n) ==
    [topic_id |-> id, topic |-> headline, experts |-> [i \in 1..n |-> LLMExpert(i)]]

\* JSON objects the LLM may answer ExpertFinder with for `topic`: the
\* requested structure (echoing the headline or not, with the requested
\* number of experts or fewer), the same with a top-level error entry, an
\* object without the expert_recommendations key, the empty object
ExpertDocs(topic) ==
    {[expert_recommendations |-> <<LLMRecommendation(topic.topic_id, h, n)>>] :
        h \in {topic.headline, <<"Another headline">>}, n \in {ExpertsPerTopic, 1}}
    \cup {[expert_recommendations |-> <<LLMRecommendation(topic.topic_id, topic.headline, ExpertsPerTopic)>>,
           error |-> TRUE],
          [experts |-> <<LLMExpert(1)>>, error |-> TRUE],
          EmptyDict}

\* the placeholder expert of the fallback structures
PlaceholderExpert(name, institution, expertise) ==
    [name |-> name, institution |-> institution, expertise |-> expertise,
     notable_work |-> <<"N/A">>, unique_perspective |-> <<"N/A">>,
     contact_method |-> <<"N/A">>, suggested_questions |-> <<>>,
     contact_info |-> <<"support@example.com">>]

\* the one-recommendation list around a topic's experts
Recommendations(topic, experts) ==
    <<[topic_id |-> Get(topic, "topic_id", 1), topic |-> Get(topic, "headline", <<>>),
       experts |-> experts]>>

Fallback(topic, expert) ==
    [error |-> TRUE, expert_recommendations |-> Recommendations(topic, <<expert>>)]

AuthErrorMsg == <<"OpenAI API authentication error. Please check your API key.">>

RateLimitMsg == <<"OpenAI API rate limit exceeded. Please try again later.">>

\* the same, rebuilding the recommendation around the request's topic
find_experts_for_topic_after_parse_rebuilt(topic, r, p) ==
    IF ~p.ok THEN Raise(p.exc, r.calls)
    ELSE IF "expert_recommendations" \notin DOMAIN p.val
    THEN Ret([expert_recommendations |-> Recommendations(topic, <<>>)], r.calls)
    ELSE Ret(Put(p.val, "expert_recommendations",
                 Recommendations(topic, p.val.expert_recommendations[1].experts)),
             r.calls)

\* lines 108-122: the parsed object p of the reply r, validated
find_experts_for_topic_after_parse(topic, r, p) ==
    IF ~p.ok THEN Raise(p.exc, r.calls)
    ELSE IF "expert_recommendations" \notin DOMAIN p.val
    THEN Ret([expert_recommendations |-> Recommendations(topic, <<>>)], r.calls)
    ELSE Ret(p.val, r.calls)

\* lines 99-122: after the call returned or raised r
find_experts_for_topic_after_create(topic, r) ==
    IF ~r.ok THEN r
    ELSE IF r.val.kind = "empty"
    THEN Raise(Exc("ValueError", <<"Empty response received from OpenAI API">>), r.calls)
    ELSE find_experts_for_topic_after_parse(topic, r, json_loads(r.val))

\* the same without the validation of lines 108-120: the parsed object is
\* returned as it is
find_experts_for_topic_after_parse_unvalidated(topic, r, p) ==
    IF ~p.ok THEN Raise(p.exc, r.calls) ELSE Ret(p.val, r.calls)

find_experts_for_topic_after_create_unvalidated(topic, r) ==
    IF ~r.ok THEN r
    ELSE IF r.val.kind = "empty"
    THEN Raise(Exc("ValueError", <<"Empty response received from OpenAI API">>), r.calls)
    ELSE find_experts_for_topic_after_parse_unvalidated(topic, r, json_loads(r.val))

find_experts_for_topic_try_unvalidated(topic, key, o) ==
    IF key \in {"none", "short"}
    THEN Raise(Exc("ValueError", <<"OpenAI API key is missing or invalid. Please check your .env file.">>),
               <<LLMCall("ExpertFinder", topic, "badkey", EmptyDict)>>)
    ELSE find_experts_for_topic_after_create_unvalidated(
             topic, create("ExpertFinder", topic, key, o))

\* the try block of ExpertFinder.find_experts_for_topic, lines 28-122
find_experts_for_topic_try(topic, key, o) ==
    IF key \in {"none", "short"}
    THEN Raise(Exc("ValueError", <<"OpenAI API key is missing or invalid. Please check your .env file.">>),
               <<LLMCall("ExpertFinder", topic, "badkey", EmptyDict)>>)
    ELSE find_experts_for_topic_after_create(topic, create("ExpertFinder", topic, key, o))

\* the except clauses of find_experts_for_topic, lines 124-207, around the
\* outcome t of the try block.  Matching an exception evaluates
\* openai.error.AuthenticationError first: the 1.x package has no
\* openai.error, so there the AttributeError of that evaluation leaves the
\* method in place of any handled result.
find_experts_for_topic_except(topic, t) ==
    IF t.ok THEN t
    ELSE IF sdk = "v1"
    THEN Raise(Exc("AttributeError", <<"module 'openai' has no attribute 'error'">>), t.calls)
    ELSE IF t.exc.type = "AuthenticationError"
    THEN Ret(Fallback(topic, PlaceholderExpert(<<"API Authentication Error">>,
                 <<"Please check your OpenAI API key">>, AuthErrorMsg)), t.calls)
    ELSE IF t.exc.type = "RateLimitError"
    THEN Ret(Fallback(topic, PlaceholderExpert(<<"API Rate Limit Error">>,
                 <<"Please try again later">>, RateLimitMsg)), t.calls)
    ELSE Ret(Fallback(topic, PlaceholderExpert(<<"Error fetching experts">>,
                 <<"Please try again later">>,
                 <<"API error: ", t.exc.type, ": ">> \o t.exc.msg)), t.calls)

\* ExpertFinder.find_experts_for_topic
find_experts_for_topic(topic, key, o) ==
    find_experts_for_topic_except(topic, find_experts_for_topic_try(topic, key, o))

\* lines 218-226: after finder.find_experts_for_topic returned or raised
find_experts_for_single_topic_after_find(experts_data) ==
    IF ~experts_data.ok THEN experts_data
    ELSE IF DOMAIN experts_data.val = {}
    THEN Raise(Exc("ValueError", <<"No expert data was returned">>), experts_data.calls)
    ELSE experts_data

\* the try block of find_experts_for_single_topic, lines 213-226
find_experts_for_single_topic_try(topic, key, o) ==
    find_experts_for_single_topic_after_find(find_experts_for_topic(topic, key, o))

\* the `except Exception` of find_experts_for_single_topic, lines 227-252
find_experts_for_single_topic_except(topic, t) ==
    IF t.ok THEN t
    ELSE Ret(Fallback(topic, PlaceholderExpert(<<"Error fetching experts">>,
                 <<"Please try again later">>, <<"Function error: ">> \o t.exc.msg)),
             t.calls)

\* find_experts_for_single_topic without its `except Exception`
find_experts_for_single_topic_uncaught(topic, key, o) ==
    find_experts_for_single_topic_try(topic, key, o)

find_experts_for_single_topic(topic, key, o) ==
    find_experts_for_single_topic_except(topic,
        find_experts_for_single_topic_try(topic, key, o))

----------------------------------------------------------------------------
(* POST /news/experts/topic *)

\* lines 208-246: after find_experts_for_single_topic returned or raised
get_experts_for_topic_after_find(topic, cs, experts_data) ==
    IF ~experts_data.ok THEN Raise(experts_data.exc, cs \o experts_data.calls)
    ELSE IF Get(experts_data.val, "error", FALSE)
    THEN Ret([output |-> experts_data.val, status |-> "error", status_code |-> 500,
              error_message |-> <<"Failed to get experts. Check server logs for details.">>],
             cs \o experts_data.calls)
    ELSE IF DOMAIN experts_data.val = {}
    THEN Ret([output |-> [expert_recommendations |->
                  Recommendations(topic, <<PlaceholderExpert(<<"API Error">>,
                      <<"Please try again later">>,
                      <<"An error occurred processing your request">>)>>)],
              status |-> "error", status_code |-> 500], cs \o experts_data.calls)
    ELSE Ret([output |-> experts_data.val, status |-> "success", status_code |-> 200],
             cs \o experts_data.calls)

\* the handler's try block, lines 195-246
get_experts_for_topic_try(topic, imp, o) ==
    IF ~imp.ok THEN Raise(imp.exc, imp.calls)
    ELSE get_experts_for_topic_after_find(topic, imp.calls,
             find_experts_for_single_topic(topic, imp.key, o))

\* the handler's `except Exception`, lines 248-275
get_experts_for_topic_except(topic, t) ==
    IF t.ok THEN t
    ELSE Ret([output |-> [expert_recommendations |->
                  Recommendations(topic, <<PlaceholderExpert(<<"API Error">>,
                      <<"Please try again later">>, <<"Error: ">> \o t.exc.msg)>>)],
              status |-> "error", status_code |-> 500], t.calls)

get_experts_for_topic(topic, imp, o) ==
    get_experts_for_topic_except(topic, get_experts_for_topic_try(topic, imp, o))

----------------------------------------------------------------------------
(* EmailDrafter (email_agent.py) *)

LLMTemplate(expert_data) ==
    [expert_name |-> expert_data.name, topic |-> expert_data.topic,
     subject |-> <<"Expert Commentary Request: ">> \o expert_data.topic
                     \o <<" - Response Needed in 6 Hours">>,
     greeting |-> <<"Dear ">> \o expert_data.name \o <<",">>,
     email_body |-> <<"Drafted body">>,
     signature |-> <<"Best regards, Desk">>]

\* JSON objects the LLM may answer EmailDrafter with: the requested
\* structure, the same with status entries of its own (a status and its
\* code, or a status alone), an object without the email_templates key
EmailDocs(expert_data) ==
    {[email_templates |-> <<LLMTemplate(expert_data)>>],
     [email_templates |-> <<LLMTemplate(expert_data)>>, status |-> "error",
      status_code |-> 500],
     [email_templates |-> <<LLMTemplate(expert_data)>>, status |-> "success"],
     [message |-> <<"cannot comply">>]}

\* generate_email after the call (r) and the parse (p): the parsed object,
\* or `raise Exception(f"Error generating email template: {str(e)}")`
generate_email_after_parse(r, p) ==
    IF r.ok /\ p.ok THEN Ret(p.val, r.calls)
    ELSE Raise(Exc("Exception", <<"Error generating email template: ">> \o p.exc.msg),
               r.calls)

generate_email_after_create(r) == generate_email_after_parse(r, Parsed(r))

\* EmailGenerator.generate_email
generate_email(expert_data, key, o) ==
    generate_email_after_create(create("EmailDrafter", expert_data, key, o))

generate_expert_email(expert_data, key, o) == generate_email(expert_data, key, o)

----------------------------------------------------------------------------
(* POST /email/generate *)

\* lines 166-169: `return email_template`
generate_email_template_after_generate(cs, email_template) ==
    IF ~email_template.ok THEN Raise(email_template.exc, cs \o email_template.calls)
    ELSE Ret(email_template.val, cs \o email_template.calls)

\* the handler's try block, lines 159-169
generate_email_template_try(expert_data, imp, o) ==
    IF ~imp.ok THEN Raise(imp.exc, imp.calls)
    ELSE generate_email_template_after_generate(imp.calls,
             generate_expert_email(expert_data, imp.key, o))

\* the fallback template of lines 175-182, with email_body
FallbackTemplate(expert_data, email_body) ==
    [expert_name |-> expert_data.name,
     topic |-> expert_data.topic,
     subject |-> <<"Expert Commentary Request: ">> \o expert_data.topic
                     \o <<" - Response Needed in 6 Hours">>,
     greeting |-> <<"Dear ">> \o expert_data.name \o <<",">>,
     email_body |-> email_body,
     signature |-> <<"Best regards,\nNews Analysis Team\nsupport@example.com\n(123) 456-7890">>]

\* the handler's `except Exception`, lines 171-186
generate_email_template_except(expert_data, t) ==
    IF t.ok THEN t
    ELSE Ret([email_templates |->
                  <<FallbackTemplate(expert_data, <<"Error generating email: ">> \o t.exc.msg)>>,
              status |-> "error", status_code |-> 500], t.calls)

\* the same with a fallback body that does not state the error
generate_email_template_except_silent(expert_data, t) ==
    IF t.ok THEN t
    ELSE Ret([email_templates |->
                  <<FallbackTemplate(expert_data, <<"Error generating email">>)>>,
              status |-> "error", status_code |-> 500], t.calls)

generate_email_template_silent(expert_data, imp, o) ==
    generate_email_template_except_silent(expert_data,
        generate_email_template_try(expert_data, imp, o))

generate_email_template(expert_data, imp, o) ==
    generate_email_template_except(expert_data,
        generate_email_template_try(expert_data, imp, o))

----------------------------------------------------------------------------
(* GET /news/top *)

\* one story dict of fetch_general_news
GeneralStory(story) ==
    [headline |-> Get(story, "title", <<>>),
     summary |-> Get(story, "snippet", <<>>),
     source |-> Get(story, "source", <<>>),
     link |-> Get(story, "link", <<>>),
     published |-> Get(story, "date", <<>>)]

\* lines 297-314: the news_stories built from `results`
GeneralStories(results) ==
    IF "news_results" \in DOMAIN results
    THEN [i \in 1..Len(results["news_results"]) |-> GeneralStory(results["news_results"][i])]
    ELSE <<>>

\* fetch_general_news after search.get_dict() returned or raised r
fetch_general_news_after_search(r) ==
    IF r.ok
    THEN Ret([news_stories |-> GeneralStories(r.val), timestamp |-> Now], r.calls)
    ELSE Ret([news_stories |-> <<>>, timestamp |-> Now, error |-> r.exc.msg], r.calls)

fetch_general_news(so) == fetch_general_news_after_search(get_dict(<<"news">>, so))

\* one story dict of the conversion in get_top_news, lines 350-356
FormattedStory(story) ==
    [headline |-> Get(story, "headline", <<>>),
     summary |-> Get(story, "summary", <<>>),
     significance |-> Significance,
     key_entities |-> <<Get(story, "source", <<>>)>>,
     commentary_note |-> CommentaryNote]

\* lines 347-359: formatted_news_data
FormattedNewsData(stories) ==
    <<[output |-> [news_stories |->
        [i \in 1..Len(stories) |-> FormattedStory(stories[i])]]]>>

get_top_news_after_fetch(imp, news_data, o) ==
    IF ~news_data.ok THEN Raise(news_data.exc, imp.calls \o news_data.calls)
    ELSE TopicsResponse(imp.calls \o news_data.calls,
             analyze_news_stories(
                 FormattedNewsData(Get(news_data.val, "news_stories", <<>>)), imp.key, o))

\* the handler's try block, lines 339-364
get_top_news_try(imp, so, o) ==
    IF ~imp.ok THEN Raise(imp.exc, imp.calls)
    ELSE get_top_news_after_fetch(imp, fetch_general_news(so), o)

\* the handler without its `except Exception`
get_top_news_uncaught(imp, so, o) == get_top_news_try(imp, so, o)

\* the handler: the try block and its `except Exception`, lines 366-378
get_top_news(imp, so, o) == TopicsExcept(get_top_news_try(imp, so, o))

----------------------------------------------------------------------------
(* POST /format-simple-email *)

LLMFormatted(email_data) ==
    [subject |-> email_data.subject,
     greeting |-> <<"Dear Editor,">>,
     introduction |-> <<"Intro">>,
     formatted_body |-> <<"Polished: ">> \o email_data.body,
     closing |-> <<"Regards">>]

\* JSON objects the LLM may answer the simple-format prompt with: the
\* requested structure, the same with status entries of its own, the empty
\* object
SimpleDocs(email_data) ==
    {[formatted_email |-> LLMFormatted(email_data), key_points |-> <<<<"K1">>>>],
     [formatted_email |-> LLMFormatted(email_data), key_points |-> <<<<"K1">>>>,
      status |-> "error", status_code |-> 500, error |-> <<"model says no">>],
     EmptyDict}

\* openai.api_key = os.getenv("OPENAI_API_KEY"), line 434
getenv_key == IF envKey = "absent" THEN "none" ELSE envKey

\* lines 448-458: the parsed object with the status entries added
format_simple_email_after_parse(r, formatted_email) ==
    IF ~formatted_email.ok THEN Raise(formatted_email.exc, r.calls)
    ELSE Ret(Merge(formatted_email.val, [status |-> "success", status_code |-> 200]),
             r.calls)

format_simple_email_after_create(r) ==
    IF ~r.ok THEN r ELSE format_simple_email_after_parse(r, json_loads(r.val))

\* the handler's try block, lines 387-458
format_simple_email_try(email_data, o) ==
    format_simple_email_after_create(create("SimpleFormat", email_data, getenv_key, o))

\* the fallback of lines 464-477, with formatted_body
SimpleFallback(email_data, formatted_body, e) ==
    [formatted_email |->
         [subject |-> email_data.subject,
          greeting |-> <<"Dear Editor,">>,
          introduction |-> <<"I'm sharing the following expert commentary that may be of interest to your audience.">>,
          formatted_body |-> formatted_body,
          closing |-> <<"Best regards,\n">> \o email_data.name],
     word_count |-> Len(email_data.body),
     key_points |-> <<<<"Error occurred while formatting the email">>>>,
     status |-> "error", status_code |-> 500, error |-> e.msg]

\* the handler's `except Exception`, lines 460-477
format_simple_email_except(email_data, t) ==
    IF t.ok THEN t ELSE Ret(SimpleFallback(email_data, email_data.body, t.exc), t.calls)

\* the same with a fallback that drops the text it could not format
format_simple_email_except_blank(email_data, t) ==
    IF t.ok THEN t ELSE Ret(SimpleFallback(email_data, <<>>, t.exc), t.calls)

format_simple_email_blank(email_data, o) ==
    format_simple_email_except_blank(email_data, format_simple_email_try(email_data, o))

format_simple_email(email_data, o) ==
    format_simple_email_except(email_data, format_simple_email_try(email_data, o))

----------------------------------------------------------------------------
(* The framework: what FastAPI sends for a handler's outcome *)

\* a returned dict is sent with HTTP 200; an HTTPException with its status
\* code and {"detail": ...}; any other exception as a bare 500
Serve(r) ==
    IF r.ok THEN [http |-> 200, body |-> r.val]
    ELSE IF r.exc.type = "HTTPException"
    THEN [http |-> r.exc.status_code, body |-> [detail |-> r.exc.detail]]
    ELSE [http |-> 500, body |-> EmptyDict]

\* the handler's local news_data
Unset == [state |-> "unset"]
Fetched(r) ==
    IF r.ok THEN [state |-> "returned", val |-> r.val]
    ELSE [state |-> "raised", exc |-> r.exc]

\* the process-wide state right after startup: no stage module imported,
\* openai.api_key not yet assigned
StartLoaded == {}

StartKey == "none"

\* r is the handler's outcome in this process, r0 its outcome in the
\* reference run
Respond(rt, req, r, r0) ==
    /\ route' = rt
    /\ request' = req
    /\ calls' = r.calls
    /\ http' = Serve(r).http
    /\ body' = Serve(r).body
    /\ alone' = [http |-> Serve(r0).http, body |-> Serve(r0).body]

----------------------------------------------------------------------------
(* State machine *)

Init ==
    /\ sdk \in {"legacy", "v1"}
    /\ envKey \in {"absent", "short", "ok"}
    /\ loaded = StartLoaded
    /\ api_key = StartKey
    /\ route = "none"
    /\ request = EmptyDict
    /\ calls = <<>>
    /\ fetched = Unset
    /\ http = 0
    /\ body = EmptyDict
    /\ alone = [http |-> 0, body |-> EmptyDict]

PostNewsAnalysisCategory ==
    \E query \in NewsQueryInputs, so \in SearchOutcomes :
        LET imp == LoadStage("agent", loaded, api_key) IN
        \E o \in ProviderOutcomes(imp.key, TopicDocs) :
            /\ loaded' = imp.loaded
            /\ api_key' = imp.key
            /\ fetched' = IF imp.ok THEN Fetched(fetch_news_by_category(query.category, so))
                            ELSE Unset
            /\ Respond("/news/analysis/category", query,
                       analyze_news_by_category(query, imp, so, o),
                       analyze_news_by_category(
                           query, LoadStage("agent", StartLoaded, StartKey), so, o))
            /\ UNCHANGED <<sdk, envKey>>

PostNewsExpertsTopic ==
    \E topic \in TopicInputs :
        LET imp == LoadStage("expert_finder", loaded, api_key) IN
        \E o \in ProviderOutcomes(imp.key, ExpertDocs(topic)) :
            /\ loaded' = imp.loaded
            /\ api_key' = imp.key
            /\ fetched' = Unset
            /\ Respond("/news/experts/topic", topic, get_experts_for_topic(topic, imp, o),
                       get_experts_for_topic(
                           topic, LoadStage("expert_finder", StartLoaded, StartKey), o))
            /\ UNCHANGED <<sdk, envKey>>

PostEmailGenerate ==
    \E expert_data \in ExpertInputs :
        LET imp == LoadStage("email_agent", loaded, api_key) IN
        \E o \in ProviderOutcomes(imp.key, EmailDocs(expert_data)) :
            /\ loaded' = imp.loaded
            /\ api_key' = imp.key
            /\ fetched' = Unset
            /\ Respond("/email/generate", expert_data,
                       generate_email_template(expert_data, imp, o),
                       generate_email_template(
                           expert_data, LoadStage("email_agent", StartLoaded, StartKey), o))
            /\ UNCHANGED <<sdk, envKey>>

GetNewsTop ==
    \E so \in SearchOutcomes :
        LET imp == LoadStage("agent", loaded, api_key) IN
        \E o \in ProviderOutcomes(imp.key, TopicDocs) :
            /\ loaded' = imp.loaded
            /\ api_key' = imp.key
            /\ fetched' = IF imp.ok THEN Fetched(fetch_general_news(so)) ELSE Unset
            /\ Respond("/news/top", EmptyDict, get_top_news(imp, so, o),
                       get_top_news(LoadStage("agent", StartLoaded, StartKey), so, o))
            /\ UNCHANGED <<sdk, envKey>>

PostFormatSimpleEmail ==
    \E email_data \in SimpleEmailInputs :
        \E o \in ProviderOutcomes(getenv_key, SimpleDocs(email_data)) :
            /\ api_key' = getenv_key
            /\ fetched' = Unset
            /\ Respond("/format-simple-email", email_data,
                       format_simple_email(email_data, o),
                       format_simple_email(email_data, o))
            /\ UNCHANGED <<sdk, envKey, loaded>>

Next ==
    \/ PostNewsAnalysisCategory
    \/ GetNewsTop
    \/ PostNewsExpertsTopic
    \/ PostEmailGenerate
    \/ PostFormatSimpleEmail

Spec == Init /\ [][Next]_vars

----------------------------------------------------------------------------
(* Properties of the most recent request and its response *)

NewsRoutes == {"/news/analysis/category", "/news/top"}

ExpertsRoute == "/news/experts/topic"

\* positions in the log of the LLM calls of `stage`
LLMCallsOf(stage) ==
    {i \in 1..Len(calls) : calls[i].svc = "llm" /\ calls[i].stage = stage}

\* the LLM stage failed: its call raised (before or after anything was
\* sent), or its reply was empty or not JSON
LLMFailedIn(stage) == \E i \in LLMCallsOf(stage) : calls[i].out # "json"

ImportFailed == \E i \in 1..Len(calls) : calls[i].svc = "import" /\ calls[i].out = "raise"

SearchCalls == {i \in 1..Len(calls) : calls[i].svc = "search"}

\* str() of the exception a failed LLM call or parse raises
FailureText(out) ==
    IF out \in {"empty", "garbage"} THEN JSONDecodeError.msg ELSE LLMError(out).msg

\* the placeholder expert of an ExpertFinder fallback in the response
ReturnedExperts == body.output.expert_recommendations[1].experts

IsPlaceholder(e) ==
    /\ e.notable_work = <<"N/A">>
    /\ e.unique_perspective = <<"N/A">>
    /\ e.contact_method = <<"N/A">>
    /\ Len(e.suggested_questions) = 0
    /\ e.contact_info = <<"support@example.com">>

(* C1: every response body of every route is an envelope: it has the keys
   output, status and status_code, at most one further key holding an error
   string (error, or the experts route's error_message), and its status is
   'success' or 'error'.  This is the first half of the claim, read in the
   code's favour; the two email routes violate it. *)
C1_EveryResponseIsEnvelope ==
    route # "none" =>
        /\ {"output", "status", "status_code"} \subseteq DOMAIN body
        /\ \/ DOMAIN body \subseteq {"output", "status", "status_code", "error"}
           \/ DOMAIN body \subseteq {"output", "status", "status_code", "error_message"}
        /\ body.status \in {"success", "error"}

(* C2: whenever ExpertFinder's single-topic mode fails (the LLM call raises,
   the key check fails, the reply is empty or not JSON),
   find_experts_for_single_topic returns instead of raising, and what it
   returns (passed on as the response's output) has error = true and
   exactly one expert under expert_recommendations[0], a placeholder. *)
C2_ExpertFinderFailureReturnsPlaceholder ==
    (route = ExpertsRoute /\ LLMFailedIn("ExpertFinder")) =>
        /\ http = 200
        /\ "error_message" \in DOMAIN body
        /\ Get(body.output, "error", FALSE) = TRUE
        /\ Len(body.output.expert_recommendations) = 1
        /\ Len(ReturnedExperts) = 1
        /\ IsPlaceholder(ReturnedExperts[1])

C2_Witness ==
    /\ route = ExpertsRoute
    /\ \E i \in LLMCallsOf("ExpertFinder") : calls[i].out = "rate"
    /\ body.output.error = TRUE
    /\ Len(ReturnedExperts) = 1

(* C3: no handler of an LLM-using route lets an exception out: every request
   is answered with HTTP 200, and when a stage module failed to load or an
   LLM call or the parsing of its reply failed, the body is marked
   status 'error' and keeps the route's payload key. *)
C3_LLMFailuresEndInStructuredError ==
    /\ route # "none" => http = 200
    /\ (route # "none" /\ (ImportFailed \/ \E i \in 1..Len(calls) :
                               calls[i].svc = "llm" /\ calls[i].out # "json")) =>
        /\ "status" \in DOMAIN body
        /\ body.status = "error"
        /\ body.status_code = 500
        /\ route \in NewsRoutes => "selected_topics" \in DOMAIN body.output
        /\ route = ExpertsRoute => "expert_recommendations" \in DOMAIN body.output
        /\ route = "/email/generate" => "email_templates" \in DOMAIN body
        /\ route = "/format-simple-email" => "formatted_email" \in DOMAIN body

C3_Witness ==
    /\ route = "/news/top"
    /\ ImportFailed
    /\ http = 200
    /\ body.status = "error"

(* C4: a failed ExpertFinder call yields the placeholder of its class: the
   authentication placeholder for a rejected or missing credential, the
   rate-limit placeholder for a rate-limit error, and for any other failure
   the placeholder embedding the error's type and message. *)
C4_EachFailureClassHasItsPlaceholder ==
    route = ExpertsRoute =>
        \A i \in LLMCallsOf("ExpertFinder") :
            calls[i].out # "json" =>
                LET e == ReturnedExperts[1] IN
                IF calls[i].out \in {"auth", "badkey", "noclient"}
                THEN e.name = <<"API Authentication Error">> /\ e.expertise = AuthErrorMsg
                ELSE IF calls[i].out = "rate"
                THEN e.name = <<"API Rate Limit Error">> /\ e.expertise = RateLimitMsg
                ELSE /\ e.name = <<"Error fetching experts">>
                     /\ SubSeq(e.expertise, 1, 1) = <<"API error: ">>

(* C5: when the search-provider call fails on a news-fetching route, the
   response is an HTTP 500. *)
C5_SearchFailureIsHttp500 ==
    (route \in NewsRoutes /\ \E i \in SearchCalls : calls[i].out = "raise") =>
        http = 500

(* C6: when TopicSelector's LLM call or the parsing of its reply fails, the
   route gets one exception wrapping the failure ("Error analyzing news: "
   followed by the failure's text) and answers HTTP 200 with status
   'error', that text as error and an empty output.selected_topics. *)
C6_TopicSelectorFailureGivesEmptyTopics ==
    route \in NewsRoutes =>
        \A i \in LLMCallsOf("TopicSelector") :
            calls[i].out # "json" =>
                /\ http = 200
                /\ body.status = "error"
                /\ "error" \in DOMAIN body
                /\ body.error = <<"Error analyzing news: ">> \o FailureText(calls[i].out)
                /\ Len(body.output.selected_topics) = 0

C6_Witness ==
    /\ route = "/news/analysis/category"
    /\ \E i \in LLMCallsOf("TopicSelector") : calls[i].out = "garbage"
    /\ body.status = "error"
    /\ Len(body.output.selected_topics) = 0

(* C7: when EmailDrafter's LLM call or the parsing of its reply fails,
   POST /email/generate returns exactly one template, with the request's
   expert name and topic, a subject containing the request's topic and a
   body containing the text of the error. *)
C7_EmailFailureGivesOneTemplate ==
    route = "/email/generate" =>
        \A i \in LLMCallsOf("EmailDrafter") :
            calls[i].out # "json" =>
                /\ Len(body.email_templates) = 1
                /\ body.email_templates[1].expert_name = request.name
                /\ body.email_templates[1].topic = request.topic
                /\ Contains(body.email_templates[1].subject, request.topic)
                /\ Contains(body.email_templates[1].email_body,
                            <<"Error generating email template: ">>
                                \o FailureText(calls[i].out))

C7_Witness ==
    /\ route = "/email/generate"
    /\ \E i \in LLMCallsOf("EmailDrafter") : calls[i].out = "timeout"
    /\ Len(body.email_templates) = 1
    /\ Contains(body.email_templates[1].email_body, LLMError("timeout").msg)

(* C8: when the LLM call or the parsing of its reply fails in the
   simple-format mode, the response's formatted body is the request's body
   and its subject the request's subject, unchanged. *)
C8_SimpleFormatFailureReturnsOriginal ==
    (route = "/format-simple-email" /\ LLMFailedIn("SimpleFormat")) =>
        /\ body.formatted_email.formatted_body = request.body
        /\ body.formatted_email.subject = request.subject

C8_Witness ==
    /\ route = "/format-simple-email"
    /\ \E i \in LLMCallsOf("SimpleFormat") : calls[i].out = "empty"
    /\ body.formatted_email.formatted_body = request.body
    /\ Len(request.body) > 1

(* C9: when the LLM's reply to ExpertFinder is a JSON object without the
   expert_recommendations key, the stage does not fail: the response is a
   success whose output is exactly one recommendation with the request's
   topic_id and headline and no experts, and no error flag. *)
C9_MissingKeyIsPatched ==
    route = ExpertsRoute =>
        \A i \in LLMCallsOf("ExpertFinder") :
            (calls[i].out = "json" /\ "expert_recommendations" \notin DOMAIN calls[i].reply) =>
                /\ http = 200
                /\ body.status = "success"
                /\ DOMAIN body.output = {"expert_recommendations"}
                /\ Len(body.output.expert_recommendations) = 1
                /\ body.output.expert_recommendations[1].topic_id = request.topic_id
                /\ body.output.expert_recommendations[1].topic = request.headline
                /\ Len(ReturnedExperts) = 0

C9_Witness ==
    /\ route = ExpertsRoute
    /\ \E i \in LLMCallsOf("ExpertFinder") :
           /\ calls[i].out = "json"
           /\ "expert_recommendations" \notin DOMAIN calls[i].reply
           /\ "error" \in DOMAIN calls[i].reply
    /\ body.status = "success"
    /\ request.topic_id = 7

(* C10: when the search provider answers without a news_results field or
   with zero hits, NewsFetcher returns (it does not raise) an empty story
   list, and on the general path a dict without an error entry. *)
C10_EmptyAnswerGivesEmptyStoryList ==
    route \in NewsRoutes =>
        \A i \in SearchCalls :
            (/\ calls[i].out = "answer"
             /\ ("news_results" \in DOMAIN calls[i].reply
                    => Len(calls[i].reply.news_results) = 0)) =>
                /\ fetched.state = "returned"
                /\ route = "/news/analysis/category" =>
                       /\ Len(fetched.val) = 1
                       /\ Len(fetched.val[1].output.news_stories) = 0
                /\ route = "/news/top" =>
                       /\ Len(fetched.val.news_stories) = 0
                       /\ "error" \notin DOMAIN fetched.val

C10_Witness ==
    /\ route = "/news/analysis/category"
    /\ \E i \in SearchCalls :
           calls[i].out = "answer" /\ "news_results" \notin DOMAIN calls[i].reply
    /\ fetched.state = "returned"

(* C11: when the LLM's reply to ExpertFinder is a JSON object with
   expert_recommendations, the response's output carries the same
   recommendations, each with the topic and topic_id of the reply; so when
   the reply echoes the request's headline, the returned topic is the
   request's headline. *)
C11_RecommendationTopicIsUnchanged ==
    route = ExpertsRoute =>
        \A i \in LLMCallsOf("ExpertFinder") :
            (calls[i].out = "json" /\ "expert_recommendations" \in DOMAIN calls[i].reply) =>
                /\ http = 200
                /\ Len(body.output.expert_recommendations)
                       = Len(calls[i].reply.expert_recommendations)
                /\ \A j \in 1..Len(calls[i].reply.expert_recommendations) :
                       /\ body.output.expert_recommendations[j].topic
                              = calls[i].reply.expert_recommendations[j].topic
                       /\ body.output.expert_recommendations[j].topic_id
                              = calls[i].reply.expert_recommendations[j].topic_id
                       /\ calls[i].reply.expert_recommendations[j].topic = request.headline
                              => body.output.expert_recommendations[j].topic = request.headline

C11_Witness ==
    /\ route = ExpertsRoute
    /\ request.topic_id = 7
    /\ \E i \in LLMCallsOf("ExpertFinder") :
           /\ calls[i].out = "json"
           /\ "expert_recommendations" \in DOMAIN calls[i].reply
           /\ calls[i].reply.expert_recommendations[1].topic = request.headline
    /\ body.status = "success"
    /\ body.output.expert_recommendations[1].topic = request.headline
    /\ body.output.expert_recommendations[1].topic_id = 7

(* C12: every response of a topic-selection route with status 'success'
   carries exactly 3 topics in output.selected_topics, whose topic_ids are
   1, 2, 3 by position, whatever number of topics the LLM replied with. *)
C12_SuccessHasThreeTopics ==
    (route \in NewsRoutes /\ body.status = "success") =>
        /\ "selected_topics" \in DOMAIN body.output
        /\ Len(body.output.selected_topics) = 3
        /\ \A j \in 1..Len(body.output.selected_topics) :
               body.output.selected_topics[j].topic_id = j

\* a request ran into the missing LLM credential: a stage module refused to
\* load without OPENAI_API_KEY, or a call was attempted with no key set
MissingCredentialFailure ==
    \/ ImportFailed
    \/ \E i \in 1..Len(calls) : calls[i].svc = "llm" /\ calls[i].out = "noclient"

(* C13: a missing credential is never a per-request failure: no request the
   started service answers fails, or is answered with an error payload,
   because the LLM key is absent from the environment. *)
C13_MissingKeyNeverFailsARequest ==
    route # "none" => ~MissingCredentialFailure

(* C14, as stated: no request handler writes mutable state shared with
   another request: the process-wide state (the modules imported, the
   openai.api_key) is never changed by a request. *)
C14_HandlersWriteNoSharedState ==
    [][loaded' = loaded /\ api_key' = api_key]_vars

(* C14, amended: handlers do write process-wide state (sys.modules and
   openai.api_key), but whatever requests were served before, the response
   to a request is the one a freshly started process gives to the same
   request with the same external-call results. *)
C14_ResponseIsAsWhenAlone ==
    route # "none" => (http = alone.http /\ body = alone.body)

C14_Witness ==
    /\ route = ExpertsRoute
    /\ "expert_finder" \in loaded
    /\ \A i \in 1..Len(calls) : calls[i].svc # "import"
    /\ LLMCallsOf("ExpertFinder") # {}
    /\ body.status = "success"
    /\ body = alone.body

\* positions in the log of all LLM calls
LLMCalls == {i \in 1..Len(calls) : calls[i].svc = "llm"}

(* C15: within one request the external calls form a sequential chain: at
   most one search-provider call and at most one LLM call per stage, none
   repeated; the search call comes before the LLM call, which on a
   news-fetching route is made only once NewsFetcher has returned its
   result; and nothing is answered from a cache: every request of a
   news-fetching route whose stage module loads makes its own search call,
   and every success of such a route comes from its own LLM call. *)
C15_CallsAreSequentialAndOwn ==
    route # "none" =>
        /\ Cardinality(SearchCalls) <= 1
        /\ Cardinality(LLMCalls) <= 1
        /\ \A i \in LLMCalls : \A j \in SearchCalls : j < i
        /\ route \in NewsRoutes =>
               /\ \A i \in LLMCalls : SearchCalls # {} /\ fetched.state = "returned"
               /\ ~ImportFailed => Cardinality(SearchCalls) = 1
               /\ body.status = "success" =>
                      /\ Cardinality(LLMCalls) = 1
                      /\ \A i \in LLMCalls :
                             /\ calls[i].out = "json"
                             /\ "selected_topics" \in DOMAIN calls[i].reply =>
                                    body.output.selected_topics = calls[i].reply.selected_topics

\* a request to a route whose stage module an earlier request imported
C15_Witness ==
    /\ route = "/news/top"
    /\ \A i \in 1..Len(calls) : calls[i].svc # "import"
    /\ Cardinality(SearchCalls) = 1
    /\ Cardinality(LLMCalls) = 1
    /\ body.status = "success"
    /\ Len(body.output.selected_topics) = 3

(* C16: NewsFetcher has no fallback: on a news-fetching route, when the
   search-provider call fails, NewsFetcher returns no story list, the
   TopicSelector LLM call is not made, and the response does not have
   status 'success'. *)
C16_SearchFailureStopsThePipeline ==
    (route \in NewsRoutes /\ \E i \in SearchCalls : calls[i].out = "raise") =>
        /\ fetched.state = "raised"
        /\ LLMCallsOf("TopicSelector") = {}
        /\ body.status # "success"

\* the story list GET /news/top builds from a provider result
TopStories(results) ==
    FormattedNewsData(GeneralStories(results))[1].output.news_stories

(* C17: for a provider result, the story list a news-fetching route hands
   to TopicSelector is the list either fetch path builds from that result:
   the list of POST /news/analysis/category and the list of GET /news/top
   are equal, also for hits without a title, snippet or source. *)
C17_BothPathsBuildTheSameStories ==
    route \in NewsRoutes =>
        \A i \in LLMCallsOf("TopicSelector"), j \in SearchCalls :
            calls[j].out = "answer" =>
                /\ calls[i].arg = CategoryStories(calls[j].reply)
                /\ calls[i].arg = TopStories(calls[j].reply)

\* the response's payload is marked as failed: the experts payload carries
\* error = true or a placeholder expert, the email payload the fallback
\* template
PayloadIsFallback ==
    \/ /\ route = ExpertsRoute
       /\ "output" \in DOMAIN body
       /\ \/ Get(body.output, "error", FALSE) = TRUE
          \/ /\ Len(body.output.expert_recommendations) > 0
             /\ Len(ReturnedExperts) > 0
             /\ IsPlaceholder(ReturnedExperts[1])
    \/ /\ route = "/email/generate"
       /\ "email_templates" \in DOMAIN body
       /\ Len(body.email_templates) > 0
       /\ Contains(body.email_templates[1].email_body, <<"Error generating email: ">>)

(* C18: in every response that carries a status, the status fields agree:
   status is 'success' exactly when status_code is 200 and 'error' exactly
   when status_code is 500; and a response whose payload carries
   error = true or a placeholder record does not have status 'success'. *)
C18_StatusFieldsAgree ==
    (route # "none" /\ "status" \in DOMAIN body) =>
        /\ "status_code" \in DOMAIN body
        /\ body.status = "success" <=> Get(body, "status_code", 0) = 200
        /\ body.status = "error" <=> Get(body, "status_code", 0) = 500
        /\ PayloadIsFallback => body.status # "success"

\* the status fields of a response body
StatusOf(b) == [status |-> Get(b, "status", "none"), status_code |-> Get(b, "status_code", 0)]

\* the search provider's part in the most recent request
LoggedSearch ==
    [kind |-> calls[CHOOSE j \in SearchCalls : TRUE].out,
     results |-> calls[CHOOSE j \in SearchCalls : TRUE].reply]

\* the JSON objects the LLM may answer the most recent request with
RouteDocs ==
    CASE route \in NewsRoutes -> TopicDocs
      [] route = ExpertsRoute -> ExpertDocs(request)
      [] route = "/email/generate" -> EmailDocs(request)
      [] route = "/format-simple-email" -> SimpleDocs(request)

\* a second run of the most recent request: the same route, request, process
\* state and search result, with the LLM call succeeding and replying the
\* JSON object d
SecondRun(d) ==
    CASE route = "/news/analysis/category" ->
            analyze_news_by_category(request, LoadStage("agent", loaded, api_key),
                                     LoggedSearch, [kind |-> "json", doc |-> d])
      [] route = "/news/top" ->
            get_top_news(LoadStage("agent", loaded, api_key), LoggedSearch,
                         [kind |-> "json", doc |-> d])
      [] route = ExpertsRoute ->
            get_experts_for_topic(request, LoadStage("expert_finder", loaded, api_key),
                                  [kind |-> "json", doc |-> d])
      [] route = "/email/generate" ->
            generate_email_template(request, LoadStage("email_agent", loaded, api_key),
                                    [kind |-> "json", doc |-> d])
      [] route = "/format-simple-email" ->
            format_simple_email(request, [kind |-> "json", doc |-> d])

(* C19: the status and status_code of a response do not depend on the
   content of a successfully parsed LLM document: when the LLM call of a
   request succeeded and its reply parsed as a JSON object, a second run of
   the same request in which the LLM replies any other JSON object has the
   same status and status_code. *)
C19_StatusIgnoresDocumentContent ==
    \A i \in LLMCalls :
        calls[i].out = "json" =>
            \A d \in RouteDocs :
                StatusOf(Serve(SecondRun(d)).body) = StatusOf(body)

====
